---- MODULE Spec2Model ----
(***************************************************************************)
(* Model of openbr/plugins/independent.cpp:                                *)
(*   - SingletonTransform   (a globally shared, reference-counted unit)    *)
(*   - IndependentTransform (one clone of a transform per matrix/column)   *)
(*   - Downsample           (class-stratified subsampling of templates)    *)
(* Each component has its own specification over the shared variables.     *)
(***************************************************************************)
EXTENDS Integers, Sequences, FiniteSets, TLC

(***************************************************************************)
(* Bounds of the model.                                                    *)
(***************************************************************************)
NumOwners == 2
MaxTrainCalls == 3

MaxChannels == 2
MaxBatch == 2
MaxTemplates == 3

\* std::numeric_limits<int>::max()
IntMax == 2147483647

Owners == 1..NumOwners
Descriptions == {"A", "B"}
NoOwner == 0
Null == "null"

\* A training contribution: the template list owner o passes in its k-th call
\* of train.  Templates are tagged so that each contribution can be told apart.
Contribution(o, k) == << <<o, k>> >>

VARIABLES
  \* ---- SingletonTransform: static members
  mutex,                    \* QMutex: NoOwner when free, else the holder
  transforms,               \* QHash<QString,Transform*>: description -> unit id
  trainingReferenceCounts,  \* QHash<QString,int>
  trainingData,             \* QHash<QString,TemplateList>
  units,                    \* heap of shared units made by make(description)
  \* ---- SingletonTransform: per instance
  description,              \* the description property of each instance
  transform,                \* the Transform* member of each instance
  pc,                       \* where each instance's caller is
  data,                     \* argument of the instance's current/last train call
  trainCalls,               \* number of train calls made on each instance
  lastIO,                   \* the last store/load call: who called, the bytes moved
  \* ---- observations of the run (history)
  creator,                  \* description -> instance whose init inserted the entry
  initAfterTrain,           \* descriptions for which an init followed a train
  zeroHits,                 \* description -> times the count was decremented to 0
  arrivals,                 \* description -> the contributions in the order appended
  \* ---- IndependentTransform: the live instance
  indTransform,             \* the transform property: Null or the prototype
  indTrainable,             \* Transform::trainable of the instance
  indTransforms,            \* QList<Transform*> transforms (the roster)
  indPc,                    \* "idle", or "training": the caller waits in train
  templatesList,            \* train's local QList<TemplateList>
  futures,                  \* QFutureSynchronizer: state of each launched task
  dst,                      \* the template returned by the last project call
  stream,                   \* the QDataStream written by the last store call
  fault,                    \* "none", or how undefined behaviour ended the run
  \* ---- observations of the run (history)
  lastOp,                   \* the last completed operation and its argument
  storedRoster,             \* the unit states as they were at the last store
  maxSeen,                  \* largest matrix count of a template given to train
  fresh,                    \* the instance is untouched since its init
  \* ---- Downsample: one call
  templates,                \* parameter templates
  classes,                  \* parameter classes
  instances,                \* parameter instances
  fraction,                 \* parameter fraction, in halves (2 is 1.0)
  downsampled,              \* the returned TemplateList
  dsPc,                     \* "called" or "returned"
  \* ---- observations of the call (history)
  dsUnique,                 \* uniqueLabels as line 34 left it
  dsSelected                \* selectedLabels as the loop of line 45 saw it

singletonVars == <<mutex, transforms, trainingReferenceCounts, trainingData, units,
                   description, transform, pc, data, trainCalls, lastIO, creator, initAfterTrain, zeroHits, arrivals>>

independentVars == <<indTransform, indTrainable, indTransforms, indPc,
                     templatesList, futures, dst, stream, fault, lastOp,
                     storedRoster, maxSeen, fresh>>

downsampleVars == <<templates, classes, instances, fraction, downsampled, dsPc,
                    dsUnique, dsSelected>>

vars == <<singletonVars, independentVars, downsampleVars>>

\* no call of Downsample is in progress
DownsampleIdle ==
  /\ templates = << >>
  /\ classes = IntMax
  /\ instances = IntMax
  /\ fraction = 2
  /\ downsampled = << >>
  /\ dsPc = "returned"
  /\ dsUnique = << >>
  /\ dsSelected = << >>

(***************************************************************************)
(* The shared unit (a br::Transform made from the description).  Its model *)
(* is what it learned; trainLog records each invocation of its train.      *)
(***************************************************************************)
make(d, o) == [parent |-> o, model |-> <<>>, trainLog |-> <<>>]

UnitTrain(u, list) ==
  [u EXCEPT !.model = list, !.trainLog = Append(@, list)]

UnitLoad(u, blob) == [u EXCEPT !.model = blob]

UnitStore(u) == <<u.model>>

\* QHash::operator[] default-constructs a missing value
HashValue(h, k, default) == IF k \in DOMAIN h THEN h[k] ELSE default

HashInsert(h, k, v) == [x \in DOMAIN h \cup {k} |-> IF x = k THEN v ELSE h[x]]

SingletonInitState ==
  /\ mutex = NoOwner
  /\ transforms = << >>
  /\ trainingReferenceCounts = << >>
  /\ trainingData = << >>
  /\ units = << >>
  /\ description = [o \in Owners |-> "Identity"]
  /\ transform = [o \in Owners |-> Null]
  /\ pc = [o \in Owners |-> "new"]
  /\ data = [o \in Owners |-> << >>]
  /\ trainCalls = [o \in Owners |-> 0]
  /\ lastIO = [op |-> "none", owner |-> NoOwner, bytes |-> << >>]
  /\ creator = << >>
  /\ initAfterTrain = {}
  /\ zeroHits = [d \in Descriptions |-> 0]
  /\ arrivals = [d \in Descriptions |-> << >>]

MutexIgnored == TRUE

\* QMutexLocker locker(&mutex) returns once no other caller holds the mutex
MutexFree == mutex = NoOwner

\* Some train call on description d has already appended its contribution.
TrainedOn(d) ==
  \E o \in Owners :
     /\ description[o] = d
     /\ \/ trainCalls[o] > 1
        \/ trainCalls[o] = 1 /\ pc[o] # "train_locked"

(***************************************************************************)
(* SingletonTransform::init                                                *)
(***************************************************************************)
\* QMutexLocker locker(&mutex): the instance is constructed with its
\* description property set, and init blocks until the mutex is free.
SingletonInitLock(o) ==
  /\ pc[o] = "new"
  /\ MutexFree
  /\ \E d \in Descriptions : description' = [description EXCEPT ![o] = d]
  /\ mutex' = o
  /\ pc' = [pc EXCEPT ![o] = "init_locked"]
  /\ UNCHANGED <<independentVars, downsampleVars, transforms, trainingReferenceCounts, trainingData, units,
                 transform, data, trainCalls, lastIO, creator,
                 initAfterTrain, zeroHits, arrivals>>

InitCreatesAlways(d) == TRUE

\* the entry is created only when the description is not in the hash
InitCreates(d) == d \notin DOMAIN transforms

SingletonInit(o) ==
  /\ pc[o] = "init_locked"
  /\ mutex = o
  /\ LET d == description[o]
         created == InitCreates(d)
         transforms1 == IF created THEN HashInsert(transforms, d, Len(units) + 1)
                                 ELSE transforms
         counts1 == IF created THEN HashInsert(trainingReferenceCounts, d, 0)
                             ELSE trainingReferenceCounts
     IN  /\ units' = IF created THEN Append(units, make(d, o)) ELSE units
         /\ transforms' = transforms1
         /\ transform' = [transform EXCEPT ![o] = transforms1[d]]
         /\ trainingReferenceCounts' =
              HashInsert(counts1, d, HashValue(counts1, d, 0) + 1)
         /\ creator' = IF created THEN HashInsert(creator, d, o) ELSE creator
         /\ initAfterTrain' = IF TrainedOn(d) THEN initAfterTrain \cup {d}
                                              ELSE initAfterTrain
  /\ mutex' = NoOwner
  /\ pc' = [pc EXCEPT ![o] = "idle"]
  /\ UNCHANGED <<independentVars, downsampleVars, trainingData, description, data, trainCalls, lastIO, zeroHits, arrivals>>

RECURSIVE TotalTrainCalls(_)
TotalTrainCalls(S) ==
  IF S = {} THEN 0
  ELSE LET o == CHOOSE x \in S : TRUE IN trainCalls[o] + TotalTrainCalls(S \ {o})

(***************************************************************************)
(* SingletonTransform::train                                               *)
(***************************************************************************)
SingletonTrainLock(o) ==
  /\ pc[o] = "idle"
  /\ TotalTrainCalls(Owners) < MaxTrainCalls
  /\ MutexFree
  /\ mutex' = o
  /\ trainCalls' = [trainCalls EXCEPT ![o] = @ + 1]
  /\ data' = [data EXCEPT ![o] = Contribution(o, trainCalls[o] + 1)]
  /\ pc' = [pc EXCEPT ![o] = "train_locked"]
  /\ UNCHANGED <<independentVars, downsampleVars, transforms, trainingReferenceCounts, trainingData, units,
                 description, transform, lastIO, creator,
                 initAfterTrain, zeroHits, arrivals>>

MoreExpectedOffByOne(count) == count > 1

\* if (trainingReferenceCounts[description] > 0) return;
MoreExpected(count) == count > 0

DecrementSkipped(count) == count

\* trainingReferenceCounts[description]--;
Decrement(count) == count - 1

AppendDataReplacing(buffer, contribution) == contribution

\* trainingData[description].append(data);
AppendData(buffer, contribution) == buffer \o contribution

\* trainingData[description].append(data); trainingReferenceCounts[description]--;
SingletonTrainAppend(o) ==
  /\ pc[o] = "train_locked"
  /\ mutex = o
  /\ LET d == description[o]
         count == Decrement(HashValue(trainingReferenceCounts, d, 0))
     IN  /\ trainingData' =
              HashInsert(trainingData, d,
                         AppendData(HashValue(trainingData, d, << >>), data[o]))
         /\ arrivals' = [arrivals EXCEPT ![d] = @ \o data[o]]
         /\ trainingReferenceCounts' = HashInsert(trainingReferenceCounts, d, count)
         /\ zeroHits' = IF count = 0 THEN [zeroHits EXCEPT ![d] = @ + 1] ELSE zeroHits
         /\ IF MoreExpected(count)
              THEN /\ mutex' = NoOwner
                   /\ pc' = [pc EXCEPT ![o] = "idle"]
              ELSE /\ mutex' = mutex
                   /\ pc' = [pc EXCEPT ![o] = "train_flush"]
  /\ UNCHANGED <<independentVars, downsampleVars, transforms, units, description, transform, data, trainCalls,
                 lastIO, creator, initAfterTrain>>

\* transform->train(trainingData[description]);
SingletonTrainFlush(o) ==
  /\ pc[o] = "train_flush"
  /\ mutex = o
  /\ units' = [units EXCEPT ![transform[o]] =
                  UnitTrain(@, HashValue(trainingData, description[o], << >>))]
  /\ pc' = [pc EXCEPT ![o] = "train_clear"]
  /\ UNCHANGED <<independentVars, downsampleVars, mutex, transforms, trainingReferenceCounts, trainingData,
                 description, transform, data, trainCalls, lastIO,
                 creator, initAfterTrain, zeroHits, arrivals>>

\* trainingData[description].clear(); and the locker releases the mutex
SingletonTrainClear(o) ==
  /\ pc[o] = "train_clear"
  /\ mutex = o
  /\ trainingData' = HashInsert(trainingData, description[o], << >>)
  /\ mutex' = NoOwner
  /\ pc' = [pc EXCEPT ![o] = "idle"]
  /\ UNCHANGED <<independentVars, downsampleVars, transforms, trainingReferenceCounts, units, description,
                 transform, data, trainCalls, lastIO, creator,
                 initAfterTrain, zeroHits, arrivals>>

(***************************************************************************)
(* SingletonTransform::store / load                                        *)
(***************************************************************************)
OwnsUnitAlways(o) == TRUE

\* if (transform->parent() == this)
OwnsUnit(o) == units[transform[o]].parent = o

SingletonStore(o) ==
  /\ pc[o] = "idle"
  /\ lastIO' = [op |-> "store", owner |-> o,
                bytes |-> IF OwnsUnit(o) THEN UnitStore(units[transform[o]])
                                         ELSE << >>]
  /\ UNCHANGED <<independentVars, downsampleVars, mutex, transforms, trainingReferenceCounts, trainingData, units,
                 description, transform, pc, data, trainCalls,
                 creator, initAfterTrain, zeroHits, arrivals>>

\* the stream a load call reads from
StoredBlob == <<"stored model">>

SingletonLoad(o) ==
  /\ pc[o] = "idle"
  /\ units' = IF OwnsUnit(o)
                THEN [units EXCEPT ![transform[o]] = UnitLoad(@, StoredBlob)]
                ELSE units
  /\ lastIO' = [op |-> "load", owner |-> o,
                bytes |-> IF OwnsUnit(o) THEN <<StoredBlob>> ELSE << >>]
  /\ UNCHANGED <<independentVars, downsampleVars, mutex, transforms, trainingReferenceCounts, trainingData,
                 description, transform, pc, data, trainCalls,
                 creator, initAfterTrain, zeroHits, arrivals>>

(***************************************************************************)
(* IndependentTransform                                                    *)
(***************************************************************************)
\* A template of a training batch: its file (named by its position in the
\* batch) and its matrices; matrix i of file k is <<k, i>>.
Template(k, n) == [file |-> k, mats |-> [i \in 1..n |-> <<k, i>>]]

\* The batches given to train: up to MaxBatch templates of 0..MaxChannels matrices.
Batches ==
  UNION {[1..len -> 0..MaxChannels] : len \in 0..MaxBatch}

Data(batch) == [k \in 1..Len(batch) |-> Template(k, batch[k])]

\* the unit a roster entry points to: its identity and what it has learned
Unit(id, st) == [uid |-> id, st |-> st]

\* Transform::clone(): a new unit that is a deep copy of the prototype
clone(roster) == Unit(Len(roster), roster[1].st)

\* Transform::train of a roster unit: what it learns from a column's templates
\* (the column of the matrices it saw, and how many templates)
Learn(list) ==
  IF list = << >> THEN <<0, 0>>
  ELSE <<list[1].mats[1][2], Len(list)>>

\* Transform::project of a unit on a single-matrix template
UnitProject(u, t) == [by |-> u.uid, model |-> u.st, of |-> t.mats[1]]

\* IndependentTransform::init
init(p) == IF p = Null THEN << >> ELSE <<Unit(0, << >>)>>

IndependentInitState(p, t) ==
  /\ indTransform = p
  /\ indTrainable = t
  /\ indTransforms = init(p)
  /\ indPc = "idle"
  /\ templatesList = << >>
  /\ futures = << >>
  /\ dst = << >>
  /\ stream = << >>
  /\ fault = "none"
  /\ lastOp = [op |-> "init", arg |-> 0]
  /\ storedRoster = << >>
  /\ maxSeen = 0
  /\ fresh = TRUE

\* A new instance is made from the same transform and initialised; the old
\* one is gone.  The stream written earlier stays.
IndependentConstruct ==
  /\ indPc = "idle"
  /\ fault = "none"
  /\ ~fresh
  /\ indTransforms' = init(indTransform)
  /\ fresh' = TRUE
  /\ maxSeen' = 0
  /\ dst' = << >>
  /\ lastOp' = [op |-> "init", arg |-> 0]
  /\ UNCHANGED <<singletonVars, downsampleVars, indTransform, indTrainable, indPc, templatesList,
                 futures, stream, fault, storedRoster>>

DistributeNoGrow(tl, t) ==
  LET width == IF tl = << >> THEN Len(t.mats) ELSE Len(tl)
  IN  [i \in 1..width |->
         IF i <= Len(t.mats)
           THEN Append(IF i <= Len(tl) THEN tl[i] ELSE << >>,
                       [file |-> t.file, mats |-> <<t.mats[i]>>])
           ELSE tl[i]]

\* lines 146-149: one template is distributed over the per-column lists
Distribute(tl, t) ==
  LET width == IF Len(tl) < Len(t.mats) THEN Len(t.mats) ELSE Len(tl)
      grown == [i \in 1..width |-> IF i <= Len(tl) THEN tl[i] ELSE << >>]
  IN  [i \in 1..width |->
         IF i <= Len(t.mats)
           THEN Append(grown[i], [file |-> t.file, mats |-> <<t.mats[i]>>])
           ELSE grown[i]]

\* lines 142-150: foreach (const Template &t, data)
RECURSIVE Regroup(_, _)
Regroup(tl, list) ==
  IF list = << >> THEN tl
  ELSE Regroup(Distribute(tl, Head(list)), Tail(list))

\* lines 152-153 and 185-186: while (transforms.size() < size) append(clone())
RECURSIVE Grow(_, _)
Grow(roster, size) ==
  IF Len(roster) < size THEN Grow(Append(roster, clone(roster)), size) ELSE roster

\* growing dereferences transform, which init leaves NULL when none was set
GrowFaults(roster, size) == indTransform = Null /\ Len(roster) < size

Max(a, b) == IF a < b THEN b ELSE a

RECURSIVE MaxOf(_)
MaxOf(seq) == IF seq = << >> THEN 0 ELSE Max(Head(seq), MaxOf(Tail(seq)))

RECURSIVE MinOf(_)
MinOf(seq) ==
  IF seq = << >> THEN 0
  ELSE IF Len(seq) = 1 THEN seq[1]
  ELSE LET rest == MinOf(Tail(seq)) IN IF Head(seq) < rest THEN Head(seq) ELSE rest

\* what is remembered of a batch once train has returned: the smallest and
\* the largest matrix count of its templates (0 and 0 for an empty batch)
Extent(batch) == [min |-> MinOf(batch), max |-> MaxOf(batch)]

\* if (!trainable) return;
TrainSkipped == ~indTrainable

\* IndependentTransform::train up to the launch of the tasks (lines 137-157)
IndependentTrainBegin ==
  /\ indPc = "idle"
  /\ fault = "none"
  /\ dst' = << >>
  /\ \E batch \in Batches :
       LET tl == Regroup(<< >>, Data(batch))
       IN  /\ maxSeen' = Max(maxSeen, MaxOf(batch))
           /\ IF TrainSkipped
                THEN /\ lastOp' = [op |-> "train", arg |-> Extent(batch)]
                     /\ UNCHANGED <<indTransforms, indPc, templatesList,
                                    futures, fault, fresh>>
                ELSE IF GrowFaults(indTransforms, Len(tl))
                THEN /\ fault' \in {"abort", "undefined"}
                     /\ lastOp' = [op |-> "train", arg |-> Extent(batch)]
                     /\ UNCHANGED <<indTransforms, indPc, templatesList,
                                    futures, fresh>>
                ELSE /\ indTransforms' = Grow(indTransforms, Len(tl))
                     /\ templatesList' = tl
                     /\ futures' = [i \in 1..Len(tl) |-> "running"]
                     /\ indPc' = "training"
                     /\ fresh' = FALSE
                     /\ lastOp' = [op |-> "train_begin", arg |-> batch]
                     /\ UNCHANGED fault
  /\ UNCHANGED <<singletonVars, downsampleVars, indTransform, indTrainable, stream, storedRoster>>

TaskUnitFirst(i) == 1

\* line 157: task i is given transforms[i]
TaskUnit(i) == i

\* _train(transforms[i], &templatesList[i]) running on a pool thread
IndependentTask(i) ==
  /\ indPc = "training"
  /\ i \in DOMAIN futures
  /\ futures[i] = "running"
  /\ indTransforms' = [indTransforms EXCEPT ![TaskUnit(i)].st = Learn(templatesList[i])]
  /\ futures' = [futures EXCEPT ![i] = "done"]
  /\ UNCHANGED <<singletonVars, downsampleVars, indTransform, indTrainable, indPc,
                 templatesList, dst, stream, fault, lastOp, storedRoster,
                 maxSeen, fresh>>

WaitReturnsAtOnce == TRUE

\* futures.waitForFinished() returns when no task is running
WaitForFinished == \A i \in DOMAIN futures : futures[i] = "done"

\* train returns: its locals are destroyed; a task that has not finished
\* stays in the thread pool
IndependentTrainReturn ==
  /\ indPc = "training"
  /\ WaitForFinished
  /\ indPc' = "idle"
  /\ templatesList' = << >>
  /\ futures' = IF \A i \in DOMAIN futures : futures[i] = "done"
                  THEN << >> ELSE futures
  /\ lastOp' = [op |-> "train", arg |-> Extent(lastOp.arg)]
  /\ UNCHANGED <<singletonVars, downsampleVars, indTransform, indTrainable, indTransforms,
                 dst, stream, fault, storedRoster, maxSeen, fresh>>

RosterIndexFirst(i, size) == 0

\* transforms[i%transforms.size()], with i and the result counted from 0
RosterIndex(i, size) == i % size

\* IndependentTransform::project (lines 161-171) on a template of n matrices
IndependentProject ==
  /\ indPc = "idle"
  /\ fault = "none"
  /\ \E n \in 0..MaxChannels :
       LET src == Template("q", n)
           roster == indTransforms
       IN  /\ lastOp' = [op |-> "project", arg |-> n]
           /\ IF n > 0 /\ Len(roster) = 0
                THEN \* i % 0 is undefined
                     /\ fault' \in {"abort", "undefined"}
                     /\ dst' = << >>
                ELSE /\ dst' = [file |-> src.file,
                                mats |-> [i \in 1..n |->
                                   UnitProject(roster[RosterIndex(i - 1, Len(roster)) + 1],
                                               [file |-> src.file, mats |-> <<src.mats[i]>>])]]
                     /\ UNCHANGED fault
  /\ UNCHANGED <<singletonVars, downsampleVars, indTransform, indTrainable, indTransforms, indPc,
                 templatesList, futures, stream, storedRoster, maxSeen, fresh>>

\* IndependentTransform::store (lines 173-179): the size, then each unit
Stored(roster) == <<Len(roster)>> \o [i \in 1..Len(roster) |-> roster[i].st]

IndependentStore ==
  /\ indPc = "idle"
  /\ fault = "none"
  /\ stream' = Stored(indTransforms)
  /\ storedRoster' = [i \in 1..Len(indTransforms) |-> indTransforms[i].st]
  /\ lastOp' = [op |-> "store", arg |-> 0]
  /\ dst' = << >>
  /\ UNCHANGED <<singletonVars, downsampleVars, indTransform, indTrainable, indTransforms, indPc,
                 templatesList, futures, fault, maxSeen, fresh>>

LoadedTruncating(roster, s) ==
  [i \in 1..s[1] |-> [roster[i] EXCEPT !.st = s[1 + i]]]

LoadedReversed(roster, s) ==
  [i \in 1..Len(roster) |->
     IF i <= s[1] THEN [roster[i] EXCEPT !.st = s[1 + (s[1] + 1 - i)]] ELSE roster[i]]

\* lines 187-188: for (i < size) transforms[i]->load(stream)
Loaded(roster, s) ==
  [i \in 1..Len(roster) |->
     IF i <= s[1] THEN [roster[i] EXCEPT !.st = s[1 + i]] ELSE roster[i]]

\* IndependentTransform::load (lines 181-189) of the stream last written
IndependentLoad ==
  /\ indPc = "idle"
  /\ fault = "none"
  /\ stream # << >>
  /\ lastOp' = [op |-> "load", arg |-> fresh]
  /\ dst' = << >>
  /\ IF GrowFaults(indTransforms, stream[1])
       THEN /\ fault' \in {"abort", "undefined"}
            /\ UNCHANGED <<indTransforms, fresh>>
       ELSE /\ indTransforms' = Loaded(Grow(indTransforms, stream[1]), stream)
            /\ fresh' = FALSE
            /\ UNCHANGED fault
  /\ UNCHANGED <<singletonVars, downsampleVars, indTransform, indTrainable, indPc,
                 templatesList, futures, stream, storedRoster, maxSeen>>

IndependentNext ==
  \/ IndependentConstruct
  \/ IndependentTrainBegin
  \/ \E i \in 1..(MaxChannels + 1) : IndependentTask(i)
  \/ IndependentTrainReturn
  \/ IndependentProject
  \/ IndependentStore
  \/ IndependentLoad

IndependentInit ==
  /\ SingletonInitState
  /\ DownsampleIdle
  /\ \E p \in {Null, "proto"}, t \in BOOLEAN : IndependentInitState(p, t)

IndependentSpec == IndependentInit /\ [][IndependentNext]_vars

\* QtConcurrent::run hands each task to the global thread pool, which runs
\* every task it is given; the waiting caller is woken when all have finished.
IndependentFairSpec ==
  /\ IndependentSpec
  /\ \A i \in 1..(MaxChannels + 1) : WF_vars(IndependentTask(i))
  /\ WF_vars(IndependentTrainReturn)

(***************************************************************************)
(* Downsample                                                              *)
(***************************************************************************)
\* the values of the label variable, in the order qSort and QMap give them
LabelOrder == <<"a", "b", "c">>

Labels == {LabelOrder[i] : i \in DOMAIN LabelOrder}

\* The template lists given to Downsample: template j carries its position,
\* its label and its FTE (failure to enroll) flag.
TemplateLists ==
  UNION {{[j \in 1..n |-> [id |-> j, label |-> l[j], fte |-> f[j]]] :
             l \in [1..n -> Labels], f \in [1..n -> BOOLEAN]} :
         n \in 0..MaxTemplates}

ClassesValues == {1, 2, IntMax}

InstancesValues == {-2, -1, 1, 2, IntMax}

\* 0.5, 1.0 and 1.5
FractionValues == {1, 2, 3}

Abs(x) == IF x < 0 THEN -x ELSE x

Min(a, b) == IF a < b THEN a ELSE b

\* every order std::random_shuffle can leave a list in
Shuffles(seq) ==
  {[i \in 1..Len(seq) |-> seq[p[i]]] :
     p \in {q \in [1..Len(seq) -> 1..Len(seq)] :
              \A i, j \in 1..Len(seq) : q[i] = q[j] => i = j}}

\* QList::mid(0, length)
Mid(seq, length) == SubSeq(seq, 1, Min(length, Len(seq)))

EarlyReturnNever(c, n, f) == FALSE

\* lines 15-17: no downsampling is required (f is in halves)
EarlyReturn(c, n, f) == c = IntMax /\ n = IntMax /\ f >= 2

\* TemplateList::countValues(inputVariable, excludeFailures): label -> count
countValues(tl, excludeFailures) ==
  LET counted(l) == {j \in 1..Len(tl) :
                        tl[j].label = l /\ (~excludeFailures \/ ~tl[j].fte)}
  IN  [l \in {x \in Labels : counted(x) # {}} |-> Cardinality(counted(l))]

CountsKept(tl, c, n) == countValues(tl, n # IntMax)

\* lines 29-32: the labels left in counts
Counts(tl, c, n) ==
  LET counts == countValues(tl, n # IntMax)
  IN  IF n # IntMax /\ c # IntMax
        THEN [l \in {x \in DOMAIN counts : ~(counts[x] < n)} |-> counts[l]]
        ELSE counts

\* QMap::keys(): ascending
Keys(counts) == SelectSeq(LabelOrder, LAMBDA l : l \in DOMAIN counts)

\* lines 38-42: the label lists the selection can give
SelectedLabelsOneMore(uniqueLabels, c) ==
  IF c < Len(uniqueLabels)
    THEN {Mid(sh, c + 1) : sh \in Shuffles(uniqueLabels)}
    ELSE {uniqueLabels}

SelectedLabels(uniqueLabels, c) ==
  IF c < Len(uniqueLabels)
    THEN {Mid(sh, c) : sh \in Shuffles(uniqueLabels)}
    ELSE {uniqueLabels}

IndicesWithFailures(tl, label) ==
  SelectSeq([j \in 1..Len(tl) |-> j], LAMBDA j : tl[j].label = label)

\* lines 47-50: the indices of the label's templates that are not FTE
Indices(tl, label) ==
  SelectSeq([j \in 1..Len(tl) |-> j],
            LAMBDA j : tl[j].label = label /\ ~tl[j].fte)

TakeCountAll(atLeast, size, n) == size

TakeCountCapped(atLeast, size, n) == Min(size, n)

\* line 53: atLeast ? indices.size() : std::min(indices.size(), instances)
TakeCount(atLeast, size, n) == IF atLeast THEN size ELSE Min(size, n)

\* lines 52-55: what one selected label can add to the result
Taken(tl, label, atLeast, n) ==
  LET indices == Indices(tl, label)
      max == TakeCount(atLeast, Len(indices), n)
  IN  {[j \in 1..max |-> tl[sh[j]]] : sh \in Shuffles(indices)}

\* lines 44-56: the loop over the selected labels
RECURSIVE Collected(_, _, _, _)
Collected(tl, selected, atLeast, n) ==
  IF selected = << >> THEN {<< >>}
  ELSE {first \o rest : first \in Taken(tl, Head(selected), atLeast, n),
                        rest \in Collected(tl, Tail(selected), atLeast, n)}

\* lines 58-61: downsample.mid(0, downsample.size()*fraction)
Fractioned(ds, f) ==
  IF f < 2 THEN {Mid(sh, (Len(ds) * f) \div 2) : sh \in Shuffles(ds)}
  ELSE {ds}

\* line 34: uniqueLabels = counts.keys(), none on the early return
UniqueLabels(tl, c, n0, f) ==
  IF EarlyReturn(c, n0, f) THEN << >> ELSE Keys(Counts(tl, c, Abs(n0)))

\* lines 38-42: the values selectedLabels can take, none on the early return
Selections(tl, c, n0, f) ==
  IF EarlyReturn(c, n0, f) THEN {<< >>}
  ELSE SelectedLabels(UniqueLabels(tl, c, n0, f), c)

\* lines 44-63: the lists the call can return once selectedLabels is sel
DownsampleWith(tl, c, n0, f, sel) ==
  IF EarlyReturn(c, n0, f) THEN {tl}
  ELSE UNION {Fractioned(ds, f) : ds \in Collected(tl, sel, n0 < 0, Abs(n0))}

\* every list one call of Downsample can return
Downsample(tl, c, n0, f) ==
  UNION {DownsampleWith(tl, c, n0, f, sel) : sel \in Selections(tl, c, n0, f)}

\* A longer list: 5 templates of "a", 3 of "b" of which one is FTE, 5 of "c".
ScenarioLabels ==
  <<"a", "b", "c", "a", "c", "b", "a", "b", "c", "a", "c", "a", "c">>

ScenarioList ==
  [j \in 1..Len(ScenarioLabels) |->
     [id |-> j, label |-> ScenarioLabels[j], fte |-> (j = 6)]]

\* the arguments of a call: any short list with any of the parameter values,
\* or the longer list with classes = 2, instances = 3, fraction = 1.0
DownsampleArguments ==
  \/ /\ templates \in TemplateLists
     /\ classes \in ClassesValues
     /\ instances \in InstancesValues
     /\ fraction \in FractionValues
  \/ /\ templates = ScenarioList
     /\ classes = 2
     /\ instances = 3
     /\ fraction = 2

DownsampleInit ==
  /\ SingletonInitState
  /\ IndependentInitState("proto", TRUE)
  /\ DownsampleArguments
  /\ downsampled = << >>
  /\ dsUnique = << >>
  /\ dsSelected = << >>
  /\ dsPc = "called"

DownsampleCall ==
  /\ dsPc = "called"
  /\ dsUnique' = UniqueLabels(templates, classes, instances, fraction)
  /\ \E sel \in Selections(templates, classes, instances, fraction) :
        /\ dsSelected' = sel
        /\ downsampled' \in DownsampleWith(templates, classes, instances, fraction, sel)
  /\ dsPc' = "returned"
  /\ UNCHANGED <<singletonVars, independentVars, templates, classes, instances,
                 fraction>>

DownsampleNext == DownsampleCall

DownsampleSpec == DownsampleInit /\ [][DownsampleNext]_vars

SingletonNext ==
  \E o \in Owners :
     \/ SingletonInitLock(o)
     \/ SingletonInit(o)
     \/ SingletonTrainLock(o)
     \/ SingletonTrainAppend(o)
     \/ SingletonTrainFlush(o)
     \/ SingletonTrainClear(o)
     \/ SingletonStore(o)
     \/ SingletonLoad(o)

SingletonStart ==
  /\ SingletonInitState
  /\ IndependentInitState("proto", TRUE)
  /\ DownsampleIdle

SingletonSpec == SingletonStart /\ [][SingletonNext]_vars

(***************************************************************************)
(* Properties of SingletonTransform                                        *)
(***************************************************************************)
Inited(o) == pc[o] \notin {"new", "init_locked"}

\* the instances whose init on description d has completed
OwnersOf(d) == {o \in Owners : Inited(o) /\ description[o] = d}

\* the train calls of o that have appended their data and decremented
Appended(o) == IF pc[o] = "train_locked" THEN trainCalls[o] - 1 ELSE trainCalls[o]

RECURSIVE SumOver(_, _)
SumOver(S, f) ==
  IF S = {} THEN 0
  ELSE LET x == CHOOSE y \in S : TRUE IN f[x] + SumOver(S \ {x}, f)

AppendedOn(d) == SumOver(OwnersOf(d), [o \in Owners |-> Appended(o)])

SeqToSet(s) == {s[i] : i \in DOMAIN s}

TrainLog(d) == units[transforms[d]].trainLog

\* every owner of d has called train at most once
OnceEach(d) == \A o \in OwnersOf(d) : trainCalls[o] <= 1

\* every owner of d has called train exactly once and returned
AllDone(d) == \A o \in OwnersOf(d) : trainCalls[o] = 1 /\ pc[o] = "idle"

\* an owner of d is between the decrement and the unit's train
Flushing(d) == {o \in OwnersOf(d) : pc[o] = "train_flush"}

\* C1: when all N owners of a description have called init before any of them
\* trains, and each trains once, the shared unit's train is invoked exactly
\* once, not before the N-th train call has appended its data, and with
\* exactly the N contributions, each once.
C1_TrainedOnceByLastOwner ==
  \A d \in DOMAIN transforms :
     (d \notin initAfterTrain /\ OnceEach(d)) =>
        LET log == TrainLog(d)
            contributed == {o \in OwnersOf(d) : Appended(o) = 1}
        IN  /\ Len(log) <= 1
            /\ Len(log) = 1 =>
                 /\ contributed = OwnersOf(d)
                 /\ Len(log[1]) = Cardinality(OwnersOf(d))
                 /\ SeqToSet(log[1]) = UNION {SeqToSet(data[o]) : o \in OwnersOf(d)}
            /\ AllDone(d) => Len(log) = 1

C1_Witness ==
  \E d \in DOMAIN transforms :
     /\ d \notin initAfterTrain
     /\ Cardinality(OwnersOf(d)) = 2
     /\ AllDone(d)
     /\ Len(TrainLog(d)) = 1
     /\ Len(TrainLog(d)[1]) = 2

C3_UnderflowRejected ==
  \A d \in DOMAIN transforms :
     /\ trainingReferenceCounts[d] >= 0
     /\ Len(TrainLog(d)) + Cardinality(Flushing(d)) <= zeroHits[d]

\* C4: among the owners of one description, store writes the shared unit's
\* state for exactly one owner, the one whose init created the entry, and
\* nothing for the others; load is gated the same way.
C4_SingleWriter ==
  /\ \A d \in DOMAIN transforms :
        {o \in OwnersOf(d) : OwnsUnit(o)} = {creator[d]}
  /\ lastIO.op # "none" =>
        (lastIO.bytes # << >> <=> creator[description[lastIO.owner]] = lastIO.owner)

C4_Witness ==
  /\ lastIO.op = "store"
  /\ lastIO.bytes = << >>
  /\ creator[description[lastIO.owner]] # lastIO.owner
  /\ \E o \in Owners : o # lastIO.owner /\ Inited(o)
                       /\ description[o] = description[lastIO.owner]

\* o holds the mutex: it is inside init or train
InLock(o) == pc[o] \in {"init_locked", "train_locked", "train_flush", "train_clear"}

\* o's train has brought the count to zero (or below) and has not returned
Critical(o) == pc[o] \in {"train_flush", "train_clear"}

Pending(d) == HashValue(trainingData, d, << >>)

\* C15: the train call that brings the count to zero holds the mutex from its
\* append and decrement until the unit's train has returned and the pending
\* data is cleared; in between no init and no train of any instance takes a
\* step; a train call that leaves the count above zero releases the mutex
\* without invoking the unit's train.
C15_FlushUnderLock ==
  /\ [](\A o \in Owners : InLock(o) => mutex = o)
  /\ [][\A o \in Owners :
          /\ Critical(o) =>
                /\ \A q \in Owners \ {o} : pc'[q] = pc[q]
                /\ trainingReferenceCounts' = trainingReferenceCounts
                /\ transforms' = transforms
                /\ mutex' # o =>
                      /\ pc[o] = "train_clear"
                      /\ pc'[o] = "idle"
                      /\ mutex' = NoOwner
                      /\ Pending(description[o])' = << >>
                      /\ Len(TrainLog(description[o])) > 0
          /\ (pc[o] = "train_locked" /\ pc'[o] # pc[o]) =>
                IF trainingReferenceCounts'[description[o]] > 0
                  THEN pc'[o] = "idle" /\ mutex' = NoOwner /\ units' = units
                  ELSE pc'[o] = "train_flush" /\ mutex' = o /\ units' = units
          /\ (pc[o] = "train_flush" /\ pc'[o] # pc[o]) =>
                /\ pc'[o] = "train_clear"
                /\ Len(TrainLog(description[o])') = Len(TrainLog(description[o])) + 1
      ]_vars

C15_Witness ==
  \E o, q \in Owners :
     /\ o # q
     /\ description[o] = description[q]
     /\ pc[o] = "train_clear"
     /\ mutex = o
     /\ pc[q] = "idle"
     /\ trainCalls[q] = 1
     /\ trainCalls[o] = 1
     /\ Len(TrainLog(description[o])) = 1
     /\ Len(TrainLog(description[o])[1]) = 2

RECURSIVE Flatten(_)
Flatten(log) == IF log = << >> THEN << >> ELSE Head(log) \o Flatten(Tail(log))

\* the contributions appended for d and not yet given to the unit's train
NotYetTrained(d) ==
  IF \E o \in Owners : pc[o] = "train_clear" /\ description[o] = d
    THEN << >> ELSE Pending(d)

\* C18: over any sequence of init and train calls, the contributions given to
\* the unit's train, invocation after invocation, followed by the ones still
\* pending, are the contributions in the order they arrived, each once: no
\* contribution is trained on twice and each invocation gets exactly those
\* that arrived since the previous one; and whenever the mutex is free and
\* the count is not positive, the pending data is empty.
C18_ContributionAccounting ==
  \A d \in DOMAIN transforms :
     /\ Flatten(TrainLog(d)) \o NotYetTrained(d) = arrivals[d]
     /\ \A i, j \in DOMAIN arrivals[d] : arrivals[d][i] = arrivals[d][j] => i = j
     /\ (mutex = NoOwner /\ trainingReferenceCounts[d] <= 0) => Pending(d) = << >>

C18_Witness ==
  \E d \in DOMAIN transforms :
     /\ mutex = NoOwner
     /\ Len(TrainLog(d)) = 2
     /\ Len(TrainLog(d)[1]) = 2
     /\ Len(TrainLog(d)[2]) = 1
     /\ Len(arrivals[d]) = 3

\* the instance taking an init or train step, if any
Acting(o) == pc'[o] # pc[o]

\* C19: an init or train step on one description leaves the unit, the count
\* and the pending data of every other description unchanged; no step removes
\* an entry or replaces its unit, so every init of a description gets the same
\* unit, and init makes a unit only when the description has no entry.
C19_Frame ==
  /\ [](\A o \in Owners : Inited(o) => transform[o] = transforms[description[o]])
  /\ [](\A d, e \in DOMAIN transforms : transforms[d] = transforms[e] => d = e)
  /\ [][/\ \A d \in DOMAIN transforms :
             d \in DOMAIN transforms' /\ transforms'[d] = transforms[d]
        /\ \A o \in Owners :
             Acting(o) =>
                /\ \A y \in Descriptions \ {description'[o]} :
                      /\ HashValue(trainingReferenceCounts', y, Null) =
                            HashValue(trainingReferenceCounts, y, Null)
                      /\ HashValue(trainingData', y, Null) = HashValue(trainingData, y, Null)
                      /\ (y \in DOMAIN transforms') = (y \in DOMAIN transforms)
                      /\ y \in DOMAIN transforms =>
                            units'[transforms[y]] = units[transforms[y]]
                /\ (pc[o] = "init_locked" /\ pc'[o] = "idle") =>
                      /\ transform'[o] = transforms'[description[o]]
                      /\ IF description[o] \in DOMAIN transforms
                           THEN units' = units
                           ELSE Len(units') = Len(units) + 1
        /\ Len(units') # Len(units) =>
             \E o \in Owners : pc[o] = "init_locked" /\ pc'[o] = "idle"
                                /\ description[o] \notin DOMAIN transforms
       ]_vars

C19_Witness ==
  /\ DOMAIN transforms = {"A", "B"}
  /\ description[1] = "A" /\ description[2] = "B"
  /\ Len(TrainLog("A")) = 2
  /\ pc[2] = "idle"
  /\ TrainLog("B") = << >>
  /\ trainingReferenceCounts["B"] = 1
  /\ Pending("B") = << >>

(***************************************************************************)
(* Properties of IndependentTransform                                      *)
(***************************************************************************)
\* the batch was not empty and each of its templates had c >= 1 matrices
UniformBatch(extent, c) ==
  /\ c > 0
  /\ extent.min = c
  /\ extent.max = c

\* the result of project: matrix i comes from roster entry i mod length,
\* applied to matrix i of the source, in the order of the source
ProjectedInOrder ==
  (lastOp.op = "project" /\ fault = "none") =>
     LET n == lastOp.arg
         len == Len(indTransforms)
     IN  /\ Len(dst.mats) = n
         /\ \A i \in 1..n :
               LET u == indTransforms[((i - 1) % len) + 1]
               IN  dst.mats[i] = [by |-> u.uid, model |-> u.st, of |-> <<"q", i>>]

\* C5 (as stated): after train on a batch whose templates all have C matrices
\* the roster has at least C entries, and project on a template of C matrices
\* applies entry i mod length to matrix i and returns the results in order.
C5_RosterCoversColumns ==
  /\ \A c \in 1..MaxChannels :
        (lastOp.op = "train" /\ fault = "none" /\ UniformBatch(lastOp.arg, c))
           => Len(indTransforms) >= c
  /\ ProjectedInOrder

\* C5 (amended): the same, for an instance whose transform is set and
\* trainable; train on an untrainable instance returns at once and leaves
\* the roster at its length.
C5_TrainableRosterCoversColumns ==
  /\ \A c \in 1..MaxChannels :
        (lastOp.op = "train" /\ fault = "none" /\ indTrainable
           /\ UniformBatch(lastOp.arg, c))
           => Len(indTransforms) >= c
  /\ ProjectedInOrder

C5_Witness ==
  /\ lastOp.op = "project"
  /\ lastOp.arg = 2
  /\ indTrainable
  /\ Len(indTransforms) = 2
  /\ indTransforms[1].st = <<1, 2>>
  /\ indTransforms[2].st = <<2, 2>>
  /\ dst.mats[2].by = 1

\* C6: train launches one task per per-column list and returns only after
\* every task has finished; if the tasks finish, train returns.
C6_ForkJoinBarrier ==
  /\ [](indPc = "training" => Len(futures) = Len(templatesList))
  /\ [](indPc = "idle" => \A i \in DOMAIN futures : futures[i] # "running")
  /\ (indPc = "training" ~> indPc = "idle")

C6_Witness ==
  /\ indPc = "training"
  /\ Len(futures) = 2
  /\ futures[1] = "running"
  /\ futures[2] = "done"

\* a step of train, project, store or load on the live instance
OperationStep == lastOp'.op # "init"

\* C7 (as stated): over train, project, store and load the roster length never
\* decreases, and after each train it is at least the largest matrix count of
\* any template of any batch given to train so far.
C7_RosterCoversAllBatches ==
  [][OperationStep =>
       /\ Len(indTransforms') >= Len(indTransforms)
       /\ (lastOp'.op = "train" /\ fault' = "none") => Len(indTransforms') >= maxSeen'
    ]_vars

\* C7 (amended): the roster length never decreases, and for an instance whose
\* transform is set and trainable it is, after each train, at least the
\* largest matrix count of any template given to train so far.
C7_TrainableRosterCoversAllBatches ==
  [][OperationStep =>
       /\ Len(indTransforms') >= Len(indTransforms)
       /\ (lastOp'.op = "train" /\ fault' = "none" /\ indTrainable)
             => Len(indTransforms') >= maxSeen'
    ]_vars

C7_Witness ==
  /\ lastOp.op = "train"
  /\ indTrainable
  /\ maxSeen = 2
  /\ Len(indTransforms) = 2
  /\ lastOp.arg.max = 1

\* C8: store, then load into a fresh instance made from the same transform,
\* gives a roster of the stored length whose entry i has the state entry i had
\* when it was stored.
C8_RoundTrip ==
  (lastOp.op = "load" /\ lastOp.arg = TRUE /\ fault = "none") =>
     /\ Len(indTransforms) = Len(storedRoster)
     /\ \A i \in 1..Len(storedRoster) : indTransforms[i].st = storedRoster[i]

C8_Witness ==
  /\ lastOp.op = "load"
  /\ lastOp.arg = TRUE
  /\ fault = "none"
  /\ Len(storedRoster) = 2
  /\ storedRoster[1] # storedRoster[2]
  /\ Len(indTransforms) = 2

\* C16: the roster entries are pairwise distinct units; the roster has been
\* grown to the number of tasks before any task runs and is not grown while
\* tasks run; a step of task i changes roster entry i only, from per-column
\* list i only, so no two tasks, and no task and no clone, touch the same unit.
C16_TaskIsolation ==
  /\ [](\A i, j \in DOMAIN indTransforms :
          indTransforms[i].uid = indTransforms[j].uid => i = j)
  /\ [](indPc = "training" => Len(indTransforms) >= Len(futures))
  /\ [][indPc = "training" =>
          /\ Len(indTransforms') = Len(indTransforms)
          /\ \A i \in DOMAIN indTransforms : indTransforms'[i].uid = indTransforms[i].uid
          /\ indPc' = "idle" => indTransforms' = indTransforms
          /\ indPc' = "training" =>
                /\ templatesList' = templatesList
                /\ \E i \in DOMAIN futures :
                      /\ futures[i] = "running"
                      /\ futures' = [futures EXCEPT ![i] = "done"]
                      /\ indTransforms' =
                            [indTransforms EXCEPT ![i].st = Learn(templatesList[i])]
      ]_vars

C16_Witness ==
  /\ indPc = "training"
  /\ Len(futures) = 2
  /\ futures[1] = "done"
  /\ futures[2] = "running"
  /\ Len(indTransforms) = 2
  /\ indTransforms[1].uid # indTransforms[2].uid
  /\ indTransforms[1].st = <<1, 2>>
  /\ indTransforms[2].st = << >>

\* per-column list i as the regrouping should leave it: matrix i, with the
\* file, of every template of the batch that has at least i matrices, in order
ExpectedColumn(batch, i) ==
  LET ks == SelectSeq([k \in 1..Len(batch) |-> k], LAMBDA k : batch[k] >= i)
  IN  [j \in 1..Len(ks) |-> [file |-> ks[j], mats |-> << <<ks[j], i>> >>]]

Disagree(batch) == \E j, k \in DOMAIN batch : batch[j] # batch[k]

\* C17 (as stated): per-column list i holds matrix i, with the file, of every
\* template that has more than i matrices (i from 0), in input order, and
\* nothing of the shorter ones; when the templates differ in their number of
\* matrices, the number of per-column lists is that of the first template.
C17_RegroupedToFirstWidth ==
  lastOp.op = "train_begin" =>
     /\ \A i \in DOMAIN templatesList :
           templatesList[i] = ExpectedColumn(lastOp.arg, i)
     /\ Disagree(lastOp.arg) => Len(templatesList) = lastOp.arg[1]

\* C17 (amended): the same per-column lists; their number is the largest
\* number of matrices of any template of the batch.
C17_RegroupedToLargestWidth ==
  lastOp.op = "train_begin" =>
     /\ \A i \in DOMAIN templatesList :
           templatesList[i] = ExpectedColumn(lastOp.arg, i)
     /\ Len(templatesList) = MaxOf(lastOp.arg)

C17_Witness ==
  /\ lastOp.op = "train_begin"
  /\ lastOp.arg = <<1, 2>>
  /\ Len(templatesList) = 2
  /\ Len(templatesList[1]) = 2
  /\ templatesList[2] = <<[file |-> 2, mats |-> << <<2, 2>> >>]>>

\* C9: project of a template with at least one matrix on an instance whose
\* roster is empty is rejected (an error or an abort), never computed.
C9_EmptyRosterProjectRejected ==
  (lastOp.op = "project" /\ lastOp.arg > 0 /\ Len(indTransforms) = 0)
     => fault = "abort"

(***************************************************************************)
(* Properties of Downsample                                                *)
(***************************************************************************)
\* C10: with classes and instances both INT_MAX and fraction >= 1 the result
\* is the input list unchanged: same templates, same order, same length, the
\* templates flagged FTE included.
C10_UnboundedIsIdentity ==
  (dsPc = "returned" /\ classes = IntMax /\ instances = IntMax /\ fraction >= 2)
     => downsampled = templates

C10_Witness ==
  /\ dsPc = "returned"
  /\ classes = IntMax /\ instances = IntMax /\ fraction = 3
  /\ Len(templates) = 3
  /\ templates[1].label = "b" /\ templates[2].label = "a"
  /\ templates[3].fte
  /\ downsampled = templates

\* the call has returned and did not take the early return of lines 15-18
Sampled ==
  /\ dsPc = "returned"
  /\ ~(classes = IntMax /\ instances = IntMax /\ fraction >= 2)

\* the number of templates of label l in a list
CountOf(list, l) == Cardinality({j \in DOMAIN list : list[j].label = l})

\* the number of templates of label l in the input that are not FTE
Eligible(l) ==
  Cardinality({j \in DOMAIN templates : templates[j].label = l /\ ~templates[j].fte})

InputLabels == {templates[j].label : j \in DOMAIN templates}

\* C11: in bounded mode (instances positive and not INT_MAX) the result holds
\* at most instances templates of each label, so its length is at most the
\* number of selected labels times instances.
C11_BoundedPerClass ==
  (Sampled /\ instances > 0 /\ instances # IntMax) =>
     /\ \A l \in Labels : CountOf(downsampled, l) <= instances
     /\ Len(downsampled) <= Len(dsSelected) * instances

C11_Witness ==
  /\ Sampled
  /\ instances = 1
  /\ fraction = 2
  /\ Len(dsSelected) = 2
  /\ \E l \in SeqToSet(dsSelected) : Eligible(l) = 2 /\ CountOf(downsampled, l) = 1
  /\ Len(downsampled) = 2

\* C12: in at-least mode (instances negative) with fraction >= 1 the result
\* holds, for every selected label, all templates of the label that are not
\* FTE, also when they are more than |instances|.
C12_AtLeastTakesAll ==
  (Sampled /\ instances < 0 /\ fraction >= 2) =>
     \A l \in SeqToSet(dsSelected) : CountOf(downsampled, l) = Eligible(l)

C12_Witness ==
  /\ Sampled
  /\ instances = -1
  /\ fraction = 2
  /\ \E l \in SeqToSet(dsSelected) :
        /\ Eligible(l) = 2
        /\ CountOf(templates, l) = 3
        /\ CountOf(downsampled, l) = 2

ExpectedTake(l) ==
  IF instances < 0 \/ Eligible(l) < instances THEN Eligible(l) ELSE instances

C20_WellFormed ==
  Sampled =>
     /\ \A i \in DOMAIN downsampled :
           /\ downsampled[i].id \in DOMAIN templates
           /\ downsampled[i] = templates[downsampled[i].id]
           /\ ~downsampled[i].fte
           /\ downsampled[i].label \in SeqToSet(dsSelected)
     /\ \A i, j \in DOMAIN downsampled :
           downsampled[i].id = downsampled[j].id => i = j

C20_Witness ==
  /\ Sampled
  /\ classes = 1
  /\ Len(dsUnique) = 2
  /\ \E j \in DOMAIN templates :
        templates[j].fte /\ templates[j].label \in SeqToSet(dsSelected)
  /\ Len(downsampled) = 1

====
